---- MODULE Spec2Model ----
(***************************************************************************)
(* A model of the two-tier cache of backend/src/services/cache.rs:         *)
(* CacheService keeps a bounded in-process map (in_memory_cache, behind a  *)
(* RwLock) in front of the cache_store table of the database.  Every       *)
(* synchronous section that runs under the map's lock is one atomic step;  *)
(* every database statement and every compute future is awaited, so other  *)
(* callers' steps interleave around it.                                    *)
(*                                                                         *)
(* Time is in minutes.  Utc::now() and the database's NOW() read the same  *)
(* clock, which the model observes at quarter-hour instants (the TTLs of   *)
(* the source are 15 and 30 minutes).                                      *)
(***************************************************************************)
EXTENDS Integers, Sequences, FiniteSets, TLC

\* ------------------------------------------------------------------ bounds

MaxOps == 2         \* public calls started when callers run concurrently
MaxRaceTicks == 1   \* quarter hours the clock may advance meanwhile
MaxSeqOps == 3      \* public calls started by a single caller
MaxTicks == 3       \* quarter hours the clock may advance meanwhile
MaxRestartOps == 2  \* public calls started by a single caller after a restart
MaxScenarioOps == 5 \* public calls of the three-key scenario: three sets first
MaxOverlapOps == 2  \* public calls started where calls overlap and may be dropped
MaxHitsOps == 4     \* public calls of a single caller that sets, gets and asks stats
MaxStaleOps == 3    \* overlapping gets and invalidates over a table left behind
MaxWarmOps == 3     \* public calls of a single caller that also warms the cache
MaxWarmTicks == 1   \* quarter hours the clock may advance meanwhile
MaxTypedOps == 3    \* public calls of a single caller that uses typed wrappers

\* The concurrent callers sharing one CacheService.
Procs == {"p1", "p2"}
\* The values of max_memory_entries: none, one, as many as there are keys.
Capacities == {0, 1, 2}

\* -------------------------------------------------------- program constants

DefaultTtl == 30    \* Duration::minutes(30) of the promotion in get
TickMinutes == 15   \* the clock's granularity: Duration::minutes(15)

\* The ttl arguments callers pass (warm_cache passes 30 and 15 minutes).
Ttls == {15, 30}

\* Keys and patterns are strings, written as sequences of characters.
KeySummary == <<"a", "n", "_", "s">>
KeyPatterns == <<"a", "c", "_", "p">>
KeyOther == <<"o">>
Keys == {KeySummary, KeyOther}
NoKey == <<>>
Patterns == {<<"a", "n">>, <<"a", "_">>, <<"_">>}

\* The Rust types T a caller asks for, and the typed values callers hold.
Types == {"A", "B"}
TypedValues == {[typ |-> "A", data |-> 1], [typ |-> "A", data |-> 2]}

\* ------------------------------------------------------------ serialization

\* serde_json::to_value: the JSON document of a typed value.
ToValue(x) == [shape |-> x.typ, data |-> x.data]

\* serde_json::from_value::<T>: decoding succeeds only for a document of T's
\* shape; otherwise CacheError::SerializationError.
FromValue(T, json) ==
    IF json.shape = T
    THEN [tag |-> "Ok", v |-> [typ |-> T, data |-> json.data]]
    ELSE [tag |-> "Err", e |-> "SerializationError"]

NoResult == [tag |-> "None"]
OkUnit == [tag |-> "Ok", v |-> "unit"]
Err(e) == [tag |-> "Err", e |-> e]

\* ------------------------------------------------------------ string matching

\* str::contains: p occurs in k as a contiguous substring.
Contains(k, p) ==
    \E i \in 0..(Len(k) - Len(p)) : SubSeq(k, i + 1, i + Len(p)) = p

\* SQL LIKE: '%' matches any run of characters, '_' any single character.
RECURSIVE LikeMatch(_, _)
LikeMatch(s, p) ==
    IF p = <<>> THEN s = <<>>
    ELSE IF Head(p) = "%"
         THEN LikeMatch(s, Tail(p)) \/ (s # <<>> /\ LikeMatch(Tail(s), p))
         ELSE /\ s # <<>>
              /\ (Head(p) = "_" \/ Head(p) = Head(s))
              /\ LikeMatch(Tail(s), Tail(p))

\* format!("%{}%", pattern): the LIKE operand invalidate_pattern binds.
LikeOperand(p) == <<"%">> \o p \o <<"%">>

\* ------------------------------------------------------------------- state

VARIABLES
    capacity,   \* max_memory_entries, fixed by CacheService::new
    clock,      \* the wall clock, in minutes
    mem,        \* in_memory_cache: resident key -> CacheEntry
    db,         \* the cache_store table: key -> [value, expires_at]
    pc,         \* each caller's position inside its call
    call,       \* each caller's arguments and locals
    mode,       \* "concurrent": callers overlap; "sequential": one caller
    left,       \* public calls that may still be started
    ev,         \* history: what the last step did and, if it returned, the result
    roundTrip,  \* history: a set and the get that immediately follows it
    setExpiry,  \* history: per key, when the value of its last set expires
    sweep,      \* history: a cleanup_expired and the get that follows it
    failed,     \* history: the key whose compute failed in the last call returned
    lock,       \* the RwLock around the map: its writer and its readers
    before,     \* history: what both tiers held for a call's key when it began
    returned    \* history: the calls that returned, in the order they did

vars ==
    <<capacity, clock, mem, db, pc, call, mode, left, ev, roundTrip, setExpiry, sweep,
      failed, lock, before, returned>>

NoRoundTrip == [stage |-> "none"]
NoSweep == [stage |-> "none"]
NoExpiry == 0 - 1

NoCall == [op |-> "none"]

\* The RwLock with no guard alive.
NoProc == "none"
Unlocked == [writer |-> NoProc, readers |-> {}]

NoBefore == [p |-> NoProc]

\* The arguments and locals of a get, set or get_or_compute in progress:
\* val is the typed value to store, json its document, got the fetched row.
Locals(op, k, T, t, v, json) ==
    [op |-> op, key |-> k, typ |-> T, ttl |-> t, val |-> v, json |-> json,
     got |-> "none"]

\* Mutant of CacheEntry: the expiry is taken without the ttl.
CacheEntryNoTtl(json, ttl, now) ==
    [value |-> json, expires_at |-> now, created_at |-> now, hit_count |-> 0]

\* The CacheEntry store_in_memory builds.
CacheEntry(json, ttl, now) ==
    [value |-> json, expires_at |-> now + ttl, created_at |-> now, hit_count |-> 0]

Remove(m, k) == [x \in (DOMAIN m) \ {k} |-> m[x]]
Insert(m, k, e) == [x \in (DOMAIN m) \cup {k} |-> IF x = k THEN e ELSE m[x]]

\* Mutant of OldestKeys: max_by_key in place of min_by_key.
NewestKeys(m) ==
    {k \in DOMAIN m : \A x \in DOMAIN m : m[k].created_at >= m[x].created_at}

\* The keys min_by_key(created_at) may yield: one of the entries created
\* earliest (among equals, the HashMap's iteration order decides).
OldestKeys(m) ==
    {k \in DOMAIN m : \A x \in DOMAIN m : m[k].created_at <= m[x].created_at}

\* Mutant of Evictable: an oldest entry is evicted below capacity too.
EvictableAlways(m, cap) ==
    IF DOMAIN m # {} THEN OldestKeys(m) ELSE {NoKey}

\* The entries store_in_memory may evict: at capacity one oldest entry, none
\* from an empty map; below capacity none (NoKey stands for no eviction).
Evictable(m, cap) ==
    IF Cardinality(DOMAIN m) >= cap /\ DOMAIN m # {} THEN OldestKeys(m) ELSE {NoKey}

\* Mutant of StoreInMemory: an entry already resident keeps its counters.
StoreInMemoryKeepCounters(m, old, k, json, ttl, now) ==
    Insert(IF old = NoKey THEN m ELSE Remove(m, old), k,
           IF k \in DOMAIN m
           THEN [CacheEntry(json, ttl, now) EXCEPT !.hit_count = m[k].hit_count,
                                                   !.created_at = m[k].created_at]
           ELSE CacheEntry(json, ttl, now))

\* store_in_memory, having evicted old: the new entry is inserted in any case.
StoreInMemory(m, old, k, json, ttl, now) ==
    Insert(IF old = NoKey THEN m ELSE Remove(m, old), k, CacheEntry(json, ttl, now))

\* Mutant of GetFromMemory: a hit counts for every resident entry.
GetFromMemoryCountAll(m, k, now) ==
    IF k \in DOMAIN m
    THEN IF m[k].expires_at > now
         THEN [x \in DOMAIN m |-> [m[x] EXCEPT !.hit_count = @ + 1]]
         ELSE Remove(m, k)
    ELSE m

\* Mutant of GetFromMemory: a hit is not counted and an expired entry stays.
GetFromMemoryReadOnly(m, k, now) == m

\* get_from_memory: a live entry is a hit and counts it; an expired entry is
\* removed; both that and an absent key are NotFound.
MemoryHit(m, k, now) == k \in DOMAIN m /\ m[k].expires_at > now
GetFromMemory(m, k, now) ==
    IF k \in DOMAIN m
    THEN IF m[k].expires_at > now
         THEN [m EXCEPT ![k].hit_count = @ + 1]
         ELSE Remove(m, k)
    ELSE m

\* get_from_database's WHERE clause: key = $1 AND expires_at > NOW().
DbLive(d, k, now) == k \in DOMAIN d /\ d[k].expires_at > now

\* store_in_database: INSERT ... ON CONFLICT (key) DO UPDATE.
Upsert(d, k, json, ttl, now) ==
    [x \in (DOMAIN d) \cup {k} |->
        IF x = k THEN [value |-> json, expires_at |-> now + ttl] ELSE d[x]]

\* The keys invalidate_pattern removes from the map: k.contains(pattern).
MemoryMatches(m, pat) == {k \in DOMAIN m : Contains(k, pat)}

\* The rows DELETE ... WHERE key LIKE '%pattern%' removes.
DbMatches(d, pat) == {k \in DOMAIN d : LikeMatch(k, LikeOperand(pat))}

Restrict(f, S) == [x \in S |-> f[x]]

\* The state after CacheService::new over the table d, in mode m and with n
\* calls to come.
Start(m, n, d) ==
    /\ capacity \in Capacities
    /\ clock = 0
    /\ mem = <<>>
    /\ db = d
    /\ pc = [p \in Procs |-> "idle"]
    /\ call = [p \in Procs |-> NoCall]
    /\ mode = m
    /\ left = n
    /\ ev = [act |-> "init"]
    /\ roundTrip = NoRoundTrip
    /\ setExpiry = [k \in Keys \cup {KeyPatterns} |-> NoExpiry]
    /\ sweep = NoSweep
    /\ failed = NoKey
    /\ lock = Unlocked
    /\ before = NoBefore
    /\ returned = <<>>

\* The state after CacheService::new over an empty table, with callers that
\* overlap.
Init == Start("concurrent", MaxOps, <<>>)

\* The same, with one caller at a time and a capacity above 0: with one
\* caller, store_in_memory does for capacity 0 what it does for capacity 1.
SeqInit == Start("sequential", MaxSeqOps, <<>>) /\ capacity > 0

\* What an earlier run of the service may have left in cache_store: nothing,
\* or one row, which expired before the restart or is still live.
LeftoverRows ==
    [value : {ToValue(v) : v \in TypedValues}, expires_at : {0 - TickMinutes, TickMinutes}]
Leftovers == {<<>>} \cup UNION {[{k} -> LeftoverRows] : k \in Keys}

\* The state after CacheService::new over a table an earlier run has left,
\* with one caller at a time.
RestartInit ==
    \E d \in Leftovers : Start("sequential", MaxRestartOps, d) /\ capacity > 0

\* Callers are interchangeable: a new call takes the first free caller, and
\* the second caller calls only while the first is inside a call.
Enter(p) ==
    /\ pc[p] = "idle"
    /\ p = "p2" => (mode # "sequential" /\ pc["p1"] # "idle")
    /\ left > 0
    /\ left' = left - 1

\* History.  A set that stored its value in the map at minute `at` and then in
\* the table, with no step of any other call since, followed by a get of the
\* same key and type with no step of any other call in between.  over: the
\* set found the key in both tiers, with another value and with hits counted.
RoundTripNext(p, act, c, r) ==
    IF act = "set_memory" /\ c.op = "set"
    THEN [stage |-> "set", p |-> p, key |-> c.key, val |-> c.val,
          ttl |-> c.ttl, at |-> clock, read_at |-> 0, result |-> NoResult,
          over |-> /\ c.key \in DOMAIN mem /\ c.key \in DOMAIN db
                   /\ mem[c.key].hit_count > 0 /\ mem[c.key].value # c.json]
    ELSE IF roundTrip.stage = "set" /\ roundTrip.p = p /\ act = "set_stored"
    THEN [roundTrip EXCEPT !.stage = "stored"]
    ELSE IF /\ roundTrip.stage = "stored" /\ c.op = "get"
            /\ c.key = roundTrip.key /\ c.typ = roundTrip.val.typ
            /\ act \in {"memory_hit", "memory_miss"}
    THEN [roundTrip EXCEPT !.stage = IF act = "memory_hit" THEN "done" ELSE "get",
                           !.p = p, !.read_at = clock, !.result = r]
    ELSE IF roundTrip.stage = "get" /\ roundTrip.p = p
    THEN IF act = "db_hit" THEN roundTrip
         ELSE [roundTrip EXCEPT !.stage = "done", !.result = r]
    ELSE NoRoundTrip

\* History.  When the value of the last set of key k expires in the table;
\* NoExpiry before any set, while a set of k is under way, and after one failed.
SetExpiryNext(p, act, c) ==
    IF act = "set_memory" \/ act = "set_failed"
    THEN [setExpiry EXCEPT ![c.key] = NoExpiry]
    ELSE IF act = "set_stored"
    THEN [setExpiry EXCEPT ![c.key] =
            IF \E q \in Procs \ {p} : pc[q] = "set_db" /\ call[q].key = c.key
            THEN NoExpiry ELSE clock + c.ttl]
    ELSE setExpiry

\* History.  A cleanup_expired that returned, having counted `cleaned` entries
\* of the map and deleted the rows `deleted`, leaving the keys `resident` in
\* the map, followed by a get of one of the deleted keys with no step of any
\* other call in between.
SweepNext(p, act, c, r) ==
    IF act = "cleanup_deleted"
    THEN [stage |-> "cleaned", p |-> p, cleaned |-> c.cleaned,
          deleted |-> (DOMAIN db) \ (DOMAIN db'), resident |-> DOMAIN mem',
          rows |-> DOMAIN db, returned |-> r, key |-> NoKey, result |-> NoResult]
    ELSE IF /\ sweep.stage = "cleaned" /\ c.op = "get"
            /\ act \in {"memory_hit", "memory_miss"}
            /\ c.key \in sweep.deleted
    THEN [sweep EXCEPT !.stage = IF act = "memory_hit" THEN "done" ELSE "get",
                       !.p = p, !.key = c.key, !.result = r]
    ELSE IF sweep.stage = "get" /\ sweep.p = p
    THEN IF act = "db_hit" THEN sweep
         ELSE [sweep EXCEPT !.stage = "done", !.result = r]
    ELSE NoSweep

\* What a tier holds for key k: its entry, or nothing.
Held(t, k) == {t[x] : x \in (DOMAIN t) \cap {k}}

\* History, kept where calls overlap and may be dropped.  When caller p enters
\* a call on a key, what both tiers hold for the key is recorded; the record
\* is forgotten as soon as another caller takes a step.
BeforeNext(p, c) ==
    IF mode # "overlap" THEN before
    ELSE IF pc[p] = "idle"
         THEN [p |-> p, key |-> c.key, mem |-> Held(mem, c.key), db |-> Held(db, c.key)]
         ELSE IF before.p = p THEN before ELSE NoBefore

\* History, kept where calls overlap: the call with locals c returned r.
NoValue == [shape |-> "none", data |-> 0]
ReturnedNext(c, r) ==
    IF mode # "overlap" THEN returned
    ELSE Append(returned, [op |-> c.op, key |-> c.key, ok |-> r.tag = "Ok",
                           value |-> IF c.op = "set" THEN c.json ELSE NoValue,
                           ttl |-> IF c.op = "set" THEN c.ttl ELSE 0])

\* History: what a caller's step did.  gone and deleted are the keys the
\* step removed from the map and from the table.
Event(p, act, c, r) ==
    [act |-> act, p |-> p, call |-> c, result |-> r,
     gone |-> (DOMAIN mem) \ (DOMAIN mem'), deleted |-> (DOMAIN db) \ (DOMAIN db')]

\* A caller's call, whose locals are c, returns r: the locals are dropped.
Return(p, act, c, r) ==
    /\ pc' = [pc EXCEPT ![p] = "idle"]
    /\ call' = [call EXCEPT ![p] = NoCall]
    /\ ev' = Event(p, act, c, r)
    /\ roundTrip' = RoundTripNext(p, act, c, r)
    /\ setExpiry' = SetExpiryNext(p, act, c)
    /\ sweep' = SweepNext(p, act, c, r)
    /\ failed' = IF act = "compute_failed" THEN c.key ELSE NoKey
    /\ before' = BeforeNext(p, c)
    /\ returned' = ReturnedNext(c, r)
    /\ UNCHANGED <<capacity, clock, mode, lock>>

\* A caller moves on to its next await point with locals c.
Goto(p, act, label, c) ==
    /\ pc' = [pc EXCEPT ![p] = label]
    /\ call' = [call EXCEPT ![p] = c]
    /\ ev' = Event(p, act, c, NoResult)
    /\ roundTrip' = RoundTripNext(p, act, c, NoResult)
    /\ setExpiry' = SetExpiryNext(p, act, c)
    /\ sweep' = SweepNext(p, act, c, NoResult)
    /\ before' = BeforeNext(p, c)
    /\ UNCHANGED <<capacity, clock, mode, failed, lock, returned>>

\* ---------------------------------------------------------------------- get

\* Mutant of GetMem: a hit that cannot be decoded goes on to the table.
GetMemFallThrough(p, c) ==
    /\ mem' = GetFromMemory(mem, c.key, clock)
    /\ UNCHANGED db
    /\ IF MemoryHit(mem, c.key, clock) /\ mem[c.key].value.shape = c.typ
       THEN Return(p, "memory_hit", c, FromValue(c.typ, mem[c.key].value))
       ELSE Goto(p, "memory_miss", "get_db", c)

\* get up to its first await, for a caller whose locals are c: get_from_memory
\* and, on a hit, the decoded value.
GetMem(p, c) ==
    /\ mem' = GetFromMemory(mem, c.key, clock)
    /\ UNCHANGED db
    /\ IF MemoryHit(mem, c.key, clock)
       THEN Return(p, "memory_hit", c, FromValue(c.typ, mem[c.key].value))
       ELSE Goto(p, "memory_miss", "get_db", c)

\* A caller enters get::<T>(key).
Get(p) ==
    /\ Enter(p)
    /\ \E k \in Keys, T \in Types :
        GetMem(p, Locals("get", k, T, 0, "none", "none"))

\* What get makes of a miss or a failure of the database read: get returns
\* NotFound; inside get_or_compute that is the compute path.
AfterDbMiss(p, act) ==
    IF call[p].op = "get"
    THEN Return(p, act, call[p], Err("NotFound"))
    ELSE Goto(p, act, "compute", call[p])

\* get_from_database finds a live row: the value is fetched.
GetDbHit(p) ==
    /\ pc[p] = "get_db"
    /\ DbLive(db, call[p].key, clock)
    /\ UNCHANGED <<mem, db, left>>
    /\ Goto(p, "db_hit", "get_promote", [call[p] EXCEPT !.got = db[call[p].key].value])

\* Mutant of GetDbMiss: a row found expired is deleted.
GetDbMissPurge(p) ==
    /\ pc[p] = "get_db"
    /\ ~DbLive(db, call[p].key, clock)
    /\ db' = [x \in (DOMAIN db) \ {call[p].key} |-> db[x]]
    /\ UNCHANGED <<mem, left>>
    /\ AfterDbMiss(p, "db_miss")

\* get_from_database finds no live row.
GetDbMiss(p) ==
    /\ pc[p] = "get_db"
    /\ ~DbLive(db, call[p].key, clock)
    /\ UNCHANGED <<mem, db, left>>
    /\ AfterDbMiss(p, "db_miss")

\* Mutant of GetDbFail: the failure of the read is passed on to the caller.
GetDbFailSurfaced(p) ==
    /\ pc[p] = "get_db"
    /\ UNCHANGED <<mem, db, left>>
    /\ Return(p, "db_read_failed", call[p], Err("DatabaseError"))

\* The database read fails: map_err(|_| CacheError::NotFound).
GetDbFail(p) ==
    /\ pc[p] = "get_db"
    /\ UNCHANGED <<mem, db, left>>
    /\ AfterDbMiss(p, "db_read_failed")

\* Mutant of GetPromote: the promoted entry inherits the row's expiry.
GetPromoteInherit(p) ==
    /\ pc[p] = "get_promote"
    /\ \E old \in Evictable(mem, capacity) :
        mem' = StoreInMemory(mem, old, call[p].key, call[p].got,
                             IF call[p].key \in DOMAIN db
                             THEN db[call[p].key].expires_at - clock ELSE DefaultTtl,
                             clock)
    /\ UNCHANGED <<db, left>>
    /\ Return(p, "promoted", call[p], FromValue(call[p].typ, call[p].got))

\* get after the database hit: the value is stored in memory for thirty
\* minutes and returned decoded.
GetPromote(p) ==
    /\ pc[p] = "get_promote"
    /\ \E old \in Evictable(mem, capacity) :
        mem' = StoreInMemory(mem, old, call[p].key, call[p].got, DefaultTtl, clock)
    /\ UNCHANGED <<db, left>>
    /\ Return(p, "promoted", call[p], FromValue(call[p].typ, call[p].got))

\* ---------------------------------------------------------------------- set

\* set up to its first await: to_value, then store_in_memory.
SetMem(p, c) ==
    /\ \E old \in Evictable(mem, capacity) :
        mem' = StoreInMemory(mem, old, c.key, c.json, c.ttl, clock)
    /\ UNCHANGED db
    /\ Goto(p, "set_memory", "set_db", c)

\* A caller enters set(key, value, ttl).
Set(p) ==
    /\ Enter(p)
    /\ \E k \in Keys, v \in TypedValues, t \in Ttls :
        SetMem(p, Locals("set", k, v.typ, t, v, ToValue(v)))

\* store_in_database succeeds: set returns Ok(()), get_or_compute the value.
SetDbOk(p) ==
    /\ pc[p] = "set_db"
    /\ db' = Upsert(db, call[p].key, call[p].json, call[p].ttl, clock)
    /\ UNCHANGED <<mem, left>>
    /\ Return(p, "set_stored", call[p],
              IF call[p].op = "set" THEN OkUnit ELSE [tag |-> "Ok", v |-> call[p].val])

\* Mutant of SetDbFail: the failed set takes its entry out of the map again.
SetDbFailRollback(p) ==
    /\ pc[p] = "set_db"
    /\ mem' = Restrict(mem, (DOMAIN mem) \ {call[p].key})
    /\ UNCHANGED <<db, left>>
    /\ Return(p, "set_failed", call[p], Err("DatabaseError"))

\* Mutant of SetDbFail: get_or_compute returns the computed value all the same.
SetDbFailForgiven(p) ==
    /\ pc[p] = "set_db"
    /\ UNCHANGED <<mem, db, left>>
    /\ Return(p, "set_failed", call[p],
              IF call[p].op = "set" THEN Err("DatabaseError")
              ELSE [tag |-> "Ok", v |-> call[p].val])

\* store_in_database fails: the error is returned; the map is left as it is.
SetDbFail(p) ==
    /\ pc[p] = "set_db"
    /\ UNCHANGED <<mem, db, left>>
    /\ Return(p, "set_failed", call[p], Err("DatabaseError"))

\* ----------------------------------------------------------- get_or_compute

\* The values compute_fn resolves to, and the types and ttls get_or_compute is
\* called with: a type compute_fn has a value of, with either ttl, or one it
\* has none of, with the default ttl.
ComputedValues == {v \in TypedValues : v.data = 2}
ComputeArgs ==
    {[typ |-> v.typ, ttl |-> t] : v \in ComputedValues, t \in Ttls}
        \cup {[typ |-> T, ttl |-> DefaultTtl] :
                    T \in Types \ {v.typ : v \in ComputedValues}}

\* A caller enters get_or_compute::<T>(key, ttl, compute_fn).
GetOrCompute(p) ==
    /\ Enter(p)
    /\ \E k \in Keys, a \in ComputeArgs :
        GetMem(p, Locals("get_or_compute", k, a.typ, a.ttl, "none", "none"))

\* Mutant of ComputeOk: the computed value is stored for the default ttl.
ComputeOkDefaultTtl(p) ==
    /\ pc[p] = "compute"
    /\ UNCHANGED left
    /\ \E v \in {x \in ComputedValues : x.typ = call[p].typ} :
        SetMem(p, [call[p] EXCEPT !.val = v, !.json = ToValue(v), !.ttl = DefaultTtl])

\* compute_fn resolves to a value of type T, which set then stores in memory.
ComputeOk(p) ==
    /\ pc[p] = "compute"
    /\ UNCHANGED left
    /\ \E v \in {x \in ComputedValues : x.typ = call[p].typ} :
        SetMem(p, [call[p] EXCEPT !.val = v, !.json = ToValue(v)])

\* Mutant of ComputeFail: the failure is remembered under the key in the map.
ComputeFailCached(p) ==
    /\ pc[p] = "compute"
    /\ \E old \in Evictable(mem, capacity) :
        mem' = StoreInMemory(mem, old, call[p].key, [shape |-> "error", data |-> 0],
                             call[p].ttl, clock)
    /\ UNCHANGED <<db, left>>
    /\ Return(p, "compute_failed", call[p], Err("ComputeError"))

\* compute_fn resolves to an error, which get_or_compute returns.
ComputeFail(p) ==
    /\ pc[p] = "compute"
    /\ UNCHANGED <<mem, db, left>>
    /\ Return(p, "compute_failed", call[p], Err("ComputeError"))

\* ------------------------------------------------------- invalidate_pattern

\* A caller enters invalidate_pattern(pattern): the matching keys leave the
\* map and are counted.
InvalidatePattern(p) ==
    /\ Enter(p)
    /\ \E pat \in Patterns :
        /\ mem' = Restrict(mem, (DOMAIN mem) \ MemoryMatches(mem, pat))
        /\ UNCHANGED db
        /\ Goto(p, "pattern_memory", "pattern_db",
                [op |-> "invalidate_pattern", pat |-> pat,
                 invalidated |-> Cardinality(MemoryMatches(mem, pat))])

\* Mutant of PatternDbOk: rows_affected replaces the count instead of adding.
PatternDbOkRowsOnly(p) ==
    /\ pc[p] = "pattern_db"
    /\ db' = Restrict(db, (DOMAIN db) \ DbMatches(db, call[p].pat))
    /\ UNCHANGED <<mem, left>>
    /\ Return(p, "pattern_deleted", call[p],
              [tag |-> "Ok", v |-> Cardinality(DbMatches(db, call[p].pat))])

\* The DELETE succeeds: rows_affected is added to the count, which is returned.
PatternDbOk(p) ==
    /\ pc[p] = "pattern_db"
    /\ db' = Restrict(db, (DOMAIN db) \ DbMatches(db, call[p].pat))
    /\ UNCHANGED <<mem, left>>
    /\ Return(p, "pattern_deleted", call[p],
              [tag |-> "Ok",
               v |-> call[p].invalidated + Cardinality(DbMatches(db, call[p].pat))])

\* The DELETE fails.
PatternDbFail(p) ==
    /\ pc[p] = "pattern_db"
    /\ UNCHANGED <<mem, db, left>>
    /\ Return(p, "pattern_failed", call[p], Err("DatabaseError"))

\* --------------------------------------------------------------- invalidate

\* A caller enters invalidate(key): cache.remove(key).
Invalidate(p) ==
    /\ Enter(p)
    /\ \E k \in Keys :
        /\ mem' = Restrict(mem, (DOMAIN mem) \ {k})
        /\ UNCHANGED db
        /\ Goto(p, "invalidate_memory", "invalidate_db",
                Locals("invalidate", k, "none", 0, "none", "none"))

\* Mutant of InvalidateDbOk: the DELETE has no WHERE clause.
InvalidateDbOkAllRows(p) ==
    /\ pc[p] = "invalidate_db"
    /\ db' = <<>>
    /\ UNCHANGED <<mem, left>>
    /\ Return(p, "invalidated", call[p], OkUnit)

\* DELETE FROM cache_store WHERE key = $1 succeeds: invalidate returns Ok(()).
InvalidateDbOk(p) ==
    /\ pc[p] = "invalidate_db"
    /\ db' = Restrict(db, (DOMAIN db) \ {call[p].key})
    /\ UNCHANGED <<mem, left>>
    /\ Return(p, "invalidated", call[p], OkUnit)

\* The DELETE fails.
InvalidateDbFail(p) ==
    /\ pc[p] = "invalidate_db"
    /\ UNCHANGED <<mem, db, left>>
    /\ Return(p, "invalidate_failed", call[p], Err("DatabaseError"))

\* ---------------------------------------------------------- cleanup_expired

\* The entries cleanup_expired takes out of the map: entry.expires_at < now.
MemoryExpired(m, now) == {k \in DOMAIN m : m[k].expires_at < now}

\* The rows DELETE ... WHERE expires_at < NOW() removes.
DbExpired(d, now) == {k \in DOMAIN d : d[k].expires_at < now}

\* A caller enters cleanup_expired: the expired entries leave the map and are
\* counted; swept_at is the instant `now` that the filter compares with.
CleanupExpired(p) ==
    /\ Enter(p)
    /\ mem' = Restrict(mem, (DOMAIN mem) \ MemoryExpired(mem, clock))
    /\ UNCHANGED db
    /\ Goto(p, "cleanup_memory", "cleanup_db",
            [op |-> "cleanup_expired", swept_at |-> clock,
             cleaned |-> Cardinality(MemoryExpired(mem, clock))])

\* Mutant of CleanupDbOk: only the deleted rows are counted.
CleanupDbOkRowsOnly(p) ==
    /\ pc[p] = "cleanup_db"
    /\ db' = Restrict(db, (DOMAIN db) \ DbExpired(db, clock))
    /\ UNCHANGED <<mem, left>>
    /\ Return(p, "cleanup_deleted", call[p],
              [tag |-> "Ok", v |-> Cardinality(DbExpired(db, clock))])

\* The DELETE succeeds: rows_affected is added to the count, which is returned.
CleanupDbOk(p) ==
    /\ pc[p] = "cleanup_db"
    /\ db' = Restrict(db, (DOMAIN db) \ DbExpired(db, clock))
    /\ UNCHANGED <<mem, left>>
    /\ Return(p, "cleanup_deleted", call[p],
              [tag |-> "Ok",
               v |-> call[p].cleaned + Cardinality(DbExpired(db, clock))])

\* The DELETE fails.
CleanupDbFail(p) ==
    /\ pc[p] = "cleanup_db"
    /\ UNCHANGED <<mem, db, left>>
    /\ Return(p, "cleanup_failed", call[p], Err("DatabaseError"))

\* ---------------------------------------------------------------- get_stats

\* cache.values().map(|entry| entry.hit_count).sum()
RECURSIVE SumHits(_, _)
SumHits(m, S) ==
    IF S = {} THEN 0
    ELSE LET k == CHOOSE x \in S : TRUE
         IN  m[k].hit_count + SumHits(m, S \ {k})

\* Mutant of HitRatio: a rate, never above 1.
HitRatioCapped(total_hits, total_keys) ==
    IF total_keys > 0
    THEN [num |-> IF total_hits > total_keys THEN total_keys ELSE total_hits,
          den |-> total_keys]
    ELSE [num |-> 0, den |-> 1]

\* hit_ratio: total_hits as f64 / total_keys as f64 when total_keys > 0, else
\* 0.0.  The quotient is kept as the fraction num / den; 0.0 is 0 / 1.
HitRatio(total_hits, total_keys) ==
    IF total_keys > 0
    THEN [num |-> total_hits, den |-> total_keys]
    ELSE [num |-> 0, den |-> 1]

\* Mutant of CacheStats: a key resident in both tiers is counted once.
CacheStatsDistinct(m, d, memory_keys, total_hits, now) ==
    [total_keys |-> Cardinality((DOMAIN m) \cup (DOMAIN d)),
     expired_keys |-> Cardinality(DbExpired(d, now)),
     hits |-> total_hits,
     hit_ratio |-> HitRatio(total_hits, Cardinality((DOMAIN m) \cup (DOMAIN d)))]

\* The CacheStats get_stats builds from the map's figures and the table's
\* counts; hit_ratio is hits / total_keys, or 0.0 when total_keys is 0.
CacheStats(m, d, memory_keys, total_hits, now) ==
    [total_keys |-> memory_keys + Cardinality(DOMAIN d),
     expired_keys |-> Cardinality(DbExpired(d, now)),
     hits |-> total_hits,
     hit_ratio |-> HitRatio(total_hits, memory_keys + Cardinality(DOMAIN d))]

\* Mutant of GetStats: only the entries not yet expired are counted.
GetStatsLive(p) ==
    /\ Enter(p)
    /\ UNCHANGED <<mem, db>>
    /\ Goto(p, "stats_memory", "stats_db",
            [op |-> "get_stats",
             memory_keys |-> Cardinality({k \in DOMAIN mem : MemoryHit(mem, k, clock)}),
             total_hits |-> SumHits(mem, DOMAIN mem)])

\* A caller enters get_stats: cache.len() and the sum of the hit counts are
\* read under the read lock.
GetStats(p) ==
    /\ Enter(p)
    /\ UNCHANGED <<mem, db>>
    /\ Goto(p, "stats_memory", "stats_db",
            [op |-> "get_stats", memory_keys |-> Cardinality(DOMAIN mem),
             total_hits |-> SumHits(mem, DOMAIN mem)])

\* The COUNT query succeeds: get_stats returns the CacheStats.
StatsDbOk(p) ==
    /\ pc[p] = "stats_db"
    /\ UNCHANGED <<mem, db, left>>
    /\ Return(p, "stats_done", call[p],
              [tag |-> "Ok",
               v |-> CacheStats(mem, db, call[p].memory_keys,
                                call[p].total_hits, clock)])

\* The COUNT query fails.
StatsDbFail(p) ==
    /\ pc[p] = "stats_db"
    /\ UNCHANGED <<mem, db, left>>
    /\ Return(p, "stats_failed", call[p], Err("DatabaseError"))

\* -------------------------------------------------------------------- clock

\* The clock advances.
Tick ==
    /\ clock < TickMinutes * (IF mode = "sequential" THEN MaxTicks ELSE MaxRaceTicks)
    /\ clock' = clock + TickMinutes
    /\ ev' = [act |-> "tick"]
    /\ UNCHANGED <<capacity, mem, db, pc, call, mode, left, roundTrip, setExpiry,
                   sweep, failed, lock, before, returned>>

Next ==
    \/ \E p \in Procs : Get(p)
    \/ \E p \in Procs : GetDbHit(p)
    \/ \E p \in Procs : GetDbMiss(p)
    \/ \E p \in Procs : GetDbFail(p)
    \/ \E p \in Procs : GetPromote(p)
    \/ \E p \in Procs : Set(p)
    \/ \E p \in Procs : SetDbOk(p)
    \/ \E p \in Procs : SetDbFail(p)
    \/ \E p \in Procs : GetOrCompute(p)
    \/ \E p \in Procs : ComputeOk(p)
    \/ \E p \in Procs : ComputeFail(p)
    \/ \E p \in Procs : InvalidatePattern(p)
    \/ \E p \in Procs : PatternDbOk(p)
    \/ \E p \in Procs : PatternDbFail(p)
    \/ \E p \in Procs : Invalidate(p)
    \/ \E p \in Procs : InvalidateDbOk(p)
    \/ \E p \in Procs : InvalidateDbFail(p)
    \/ \E p \in Procs : CleanupExpired(p)
    \/ \E p \in Procs : CleanupDbOk(p)
    \/ \E p \in Procs : CleanupDbFail(p)
    \/ \E p \in Procs : GetStats(p)
    \/ \E p \in Procs : StatsDbOk(p)
    \/ \E p \in Procs : StatsDbFail(p)
    \/ Tick

Spec == Init /\ [][Next]_vars

SeqSpec == SeqInit /\ [][Next]_vars

RestartSpec == RestartInit /\ [][Next]_vars

\* ----------------------------------------------------- three keys, capacity 2

\* The keys "a", "b", "c" of the scenario, in the order of their sets.
ScenarioKeys == <<KeySummary, KeyPatterns, KeyOther>>

\* The state after CacheService::new(pool, 2) over an empty table.
ScenarioInit == Start("sequential", MaxScenarioOps, <<>>) /\ capacity = 2

\* The number of calls the scenario's caller has started.
Started == MaxScenarioOps - left

\* The caller's first three calls: set of "a", of "b", of "c", each at a later
\* instant than the entries resident were created.
ScenarioSet(p) ==
    /\ Enter(p)
    /\ Started < Len(ScenarioKeys)
    /\ \A x \in DOMAIN mem : mem[x].created_at < clock
    /\ \E v \in TypedValues, t \in Ttls :
        SetMem(p, Locals("set", ScenarioKeys[Started + 1], v.typ, t, v, ToValue(v)))

\* After them the caller gets any of the three keys.
ScenarioGet(p) ==
    /\ Enter(p)
    /\ Started >= Len(ScenarioKeys)
    /\ \E i \in DOMAIN ScenarioKeys, T \in Types :
        GetMem(p, Locals("get", ScenarioKeys[i], T, 0, "none", "none"))

\* Or asks for the statistics.
ScenarioStats(p) ==
    /\ Started >= Len(ScenarioKeys)
    /\ GetStats(p)

ScenarioNext ==
    \/ \E p \in Procs : ScenarioSet(p)
    \/ \E p \in Procs : SetDbOk(p)
    \/ \E p \in Procs : SetDbFail(p)
    \/ \E p \in Procs : ScenarioGet(p)
    \/ \E p \in Procs : GetDbHit(p)
    \/ \E p \in Procs : GetDbMiss(p)
    \/ \E p \in Procs : GetDbFail(p)
    \/ \E p \in Procs : GetPromote(p)
    \/ \E p \in Procs : ScenarioStats(p)
    \/ \E p \in Procs : StatsDbOk(p)
    \/ \E p \in Procs : StatsDbFail(p)
    \/ Tick

ScenarioSpec == ScenarioInit /\ [][ScenarioNext]_vars

\* ------------------------------------------------------- hits and statistics

\* One caller that sets, gets and asks for the statistics, at one instant.
HitsInit == Start("sequential", MaxHitsOps, <<>>) /\ capacity > 0

HitsNext ==
    \/ \E p \in Procs : Set(p)
    \/ \E p \in Procs : SetDbOk(p)
    \/ \E p \in Procs : SetDbFail(p)
    \/ \E p \in Procs : Get(p)
    \/ \E p \in Procs : GetDbHit(p)
    \/ \E p \in Procs : GetDbMiss(p)
    \/ \E p \in Procs : GetDbFail(p)
    \/ \E p \in Procs : GetPromote(p)
    \/ \E p \in Procs : GetStats(p)
    \/ \E p \in Procs : StatsDbOk(p)
    \/ \E p \in Procs : StatsDbFail(p)

HitsSpec == HitsInit /\ [][HitsNext]_vars

\* ---------------------------------------------- overlapping, dropped calls

\* The ttl arguments set accepts: any chrono::Duration, of either sign or zero.
AcceptedTtls == {0 - TickMinutes, 0, TickMinutes}

\* Two callers whose calls overlap, over an empty table.
OverlapInit == Start("overlap", MaxOverlapOps, <<>>)

\* A caller enters set(key, value, ttl) with any ttl that set accepts.
SetAnyTtl(p) ==
    /\ Enter(p)
    /\ \E k \in Keys, v \in TypedValues, t \in AcceptedTtls :
        SetMem(p, Locals("set", k, v.typ, t, v, ToValue(v)))

\* The awaits at which the future of a get, a set or an invalidate is
\* suspended: the database statement of each.
SuspensionPoints == {"get_db", "set_db", "invalidate_db"}

\* The caller drops the future of its call at the await where it is
\* suspended: the rest of the call never runs, and what it did so far stays.
Cancel(p) ==
    /\ pc[p] \in SuspensionPoints
    /\ pc' = [pc EXCEPT ![p] = "idle"]
    /\ call' = [call EXCEPT ![p] = NoCall]
    /\ ev' = [act |-> "cancelled", p |-> p, call |-> call[p], result |-> NoResult,
              gone |-> {}, deleted |-> {}]
    /\ before' = IF before.p = p THEN before ELSE NoBefore
    /\ UNCHANGED <<capacity, clock, mem, db, mode, left, roundTrip, setExpiry, sweep,
                   failed, lock, returned>>

OverlapNext ==
    \/ \E p \in Procs : SetAnyTtl(p)
    \/ \E p \in Procs : SetDbOk(p)
    \/ \E p \in Procs : SetDbFail(p)
    \/ \E p \in Procs : Get(p)
    \/ \E p \in Procs : GetDbHit(p)
    \/ \E p \in Procs : GetDbMiss(p)
    \/ \E p \in Procs : GetDbFail(p)
    \/ \E p \in Procs : GetPromote(p)
    \/ \E p \in Procs : Invalidate(p)
    \/ \E p \in Procs : InvalidateDbOk(p)
    \/ \E p \in Procs : InvalidateDbFail(p)
    \/ \E p \in Procs : Cancel(p)
    \/ Tick

OverlapSpec == OverlapInit /\ [][OverlapNext]_vars

\* Two callers whose gets and invalidates overlap, over the table an earlier
\* run left behind; nothing is set or computed.
StaleInit == \E d \in Leftovers : Start("overlap", MaxStaleOps, d)

StaleNext ==
    \/ \E p \in Procs : Get(p)
    \/ \E p \in Procs : GetDbHit(p)
    \/ \E p \in Procs : GetDbMiss(p)
    \/ \E p \in Procs : GetDbFail(p)
    \/ \E p \in Procs : GetPromote(p)
    \/ \E p \in Procs : Invalidate(p)
    \/ \E p \in Procs : InvalidateDbOk(p)
    \/ \E p \in Procs : InvalidateDbFail(p)
    \/ Tick

StaleSpec == StaleInit /\ [][StaleNext]_vars

\* --------------------------------------------------------------- warm_cache

\* The keys warm_cache warms, in its order, with the ttl it passes for each:
\* "analytics_summary" for 30 minutes, "activity_patterns" for 15.
HotKeys == <<KeySummary, KeyPatterns>>
HotTtls == <<30, 15>>

\* The document each compute closure of warm_cache resolves to: a JSON object
\* literal; the closures cannot fail.
WarmValue == [shape |-> "J", data |-> 0]

\* What a get of k would find: the live value of the map, else of the table.
LiveValue(m, d, k, now) ==
    IF MemoryHit(m, k, now) THEN {m[k].value}
    ELSE IF DbLive(d, k, now) THEN {d[k].value} ELSE {}

\* The locals of warm_cache while its get_or_compute number `stage` runs:
\* results are the results of the get_or_compute calls that returned, computed
\* the keys whose closure ran.  History: started is the instant of the call,
\* healthy whether every statement on the table succeeded so far, cached what
\* a get of each hot key would have found when the call began, mirrored
\* whether each hot key then live in the map was live in the table too, with
\* the same value.
WarmLocals(stage, c) ==
    [c EXCEPT !.stage = stage, !.key = HotKeys[stage], !.ttl = HotTtls[stage],
              !.got = WarmValue]

\* Mutant of WarmDone: an error of a get_or_compute is returned at once, as
\* the ? operator would.
WarmDoneOrFail(p, act, c, r) ==
    LET d == [c EXCEPT !.results = Append(@, r)]
    IN  IF r.tag = "Err"
        THEN Return(p, "warm_done", d, r)
        ELSE IF c.stage < Len(HotKeys)
        THEN Goto(p, act, "warm_mem", WarmLocals(c.stage + 1, d))
        ELSE Return(p, "warm_done", d, OkUnit)

\* A get_or_compute of warm_cache returns r, which `let _ =` discards.  After
\* the first the second begins; after the second warm_cache returns Ok(()).
WarmDone(p, act, c, r) ==
    LET d == [c EXCEPT !.results = Append(@, r)]
    IN  IF c.stage < Len(HotKeys)
        THEN Goto(p, act, "warm_mem", WarmLocals(c.stage + 1, d))
        ELSE Return(p, "warm_done", d, OkUnit)

\* A caller enters warm_cache.
WarmCache(p) ==
    /\ Enter(p)
    /\ UNCHANGED <<mem, db>>
    /\ Goto(p, "warm_started", "warm_mem",
            WarmLocals(1, [op |-> "warm_cache", stage |-> 0, key |-> NoKey, ttl |-> 0,
                           got |-> WarmValue, results |-> <<>>, computed |-> {},
                           started |-> clock, healthy |-> TRUE,
                           mirrored |-> \A i \in DOMAIN HotKeys :
                                           MemoryHit(mem, HotKeys[i], clock) =>
                                               /\ DbLive(db, HotKeys[i], clock)
                                               /\ db[HotKeys[i]].value
                                                    = mem[HotKeys[i]].value,
                           cached |-> [i \in DOMAIN HotKeys |->
                                          LiveValue(mem, db, HotKeys[i], clock)]]))

\* get_or_compute's get looks the key up in the map: a hit is decoded as a
\* serde_json::Value, which cannot fail, and returned.
WarmGetMem(p) ==
    /\ pc[p] = "warm_mem"
    /\ mem' = GetFromMemory(mem, call[p].key, clock)
    /\ UNCHANGED <<db, left>>
    /\ IF MemoryHit(mem, call[p].key, clock)
       THEN WarmDone(p, "warm_hit", call[p], [tag |-> "Ok", v |-> mem[call[p].key].value])
       ELSE Goto(p, "warm_miss", "warm_db", call[p])

\* Mutant of WarmDbHit: a live row is passed over and the closure awaited.
WarmDbHitRecompute(p) ==
    /\ pc[p] = "warm_db"
    /\ DbLive(db, call[p].key, clock)
    /\ UNCHANGED <<mem, db, left>>
    /\ Goto(p, "warm_db_miss", "warm_compute", call[p])

\* get_from_database finds a live row.
WarmDbHit(p) ==
    /\ pc[p] = "warm_db"
    /\ DbLive(db, call[p].key, clock)
    /\ UNCHANGED <<mem, db, left>>
    /\ Goto(p, "warm_db_hit", "warm_promote", [call[p] EXCEPT !.got = db[call[p].key].value])

\* get_from_database finds no live row: get returns NotFound and
\* get_or_compute awaits the closure.
WarmDbMiss(p) ==
    /\ pc[p] = "warm_db"
    /\ ~DbLive(db, call[p].key, clock)
    /\ UNCHANGED <<mem, db, left>>
    /\ Goto(p, "warm_db_miss", "warm_compute", call[p])

\* The database read fails, which get maps to NotFound.
WarmDbFail(p) ==
    /\ pc[p] = "warm_db"
    /\ UNCHANGED <<mem, db, left>>
    /\ Goto(p, "warm_db_failed", "warm_compute", [call[p] EXCEPT !.healthy = FALSE])

\* get after the table hit: the value is promoted and returned.
WarmPromote(p) ==
    /\ pc[p] = "warm_promote"
    /\ \E old \in Evictable(mem, capacity) :
        mem' = StoreInMemory(mem, old, call[p].key, call[p].got, DefaultTtl, clock)
    /\ UNCHANGED <<db, left>>
    /\ WarmDone(p, "warm_promoted", call[p], [tag |-> "Ok", v |-> call[p].got])

\* The closure resolves to its document, and set stores it in the map.
WarmCompute(p) ==
    /\ pc[p] = "warm_compute"
    /\ \E old \in Evictable(mem, capacity) :
        mem' = StoreInMemory(mem, old, call[p].key, WarmValue, call[p].ttl, clock)
    /\ UNCHANGED <<db, left>>
    /\ Goto(p, "warm_computed", "warm_set_db",
            [call[p] EXCEPT !.got = WarmValue, !.computed = @ \cup {call[p].key}])

\* set's store_in_database succeeds: get_or_compute returns the document.
WarmSetDbOk(p) ==
    /\ pc[p] = "warm_set_db"
    /\ db' = Upsert(db, call[p].key, call[p].got, call[p].ttl, clock)
    /\ UNCHANGED <<mem, left>>
    /\ WarmDone(p, "warm_stored", call[p], [tag |-> "Ok", v |-> call[p].got])

\* set's store_in_database fails: get_or_compute returns the error.
WarmSetDbFail(p) ==
    /\ pc[p] = "warm_set_db"
    /\ UNCHANGED <<mem, db, left>>
    /\ WarmDone(p, "warm_store_failed", [call[p] EXCEPT !.healthy = FALSE],
                Err("DatabaseError"))

\* The admin endpoint's answer to the result of warm_cache.
WarmCacheResponse(r) ==
    IF r.tag = "Ok" THEN [status |-> 200, success |-> TRUE]
    ELSE [status |-> 500, success |-> FALSE]

\* A caller enters get::<T>(key) for one of the hot keys.
GetHot(p) ==
    /\ Enter(p)
    /\ \E i \in DOMAIN HotKeys, T \in Types :
        GetMem(p, Locals("get", HotKeys[i], T, 0, "none", "none"))

\* One caller that sets, warms the cache and reads the hot keys.
WarmInit == Start("sequential", MaxWarmOps, <<>>)

\* Time passes between the steps of the warming caller.
WarmTick ==
    /\ clock < TickMinutes * MaxWarmTicks
    /\ Tick

WarmNext ==
    \/ \E p \in Procs : Set(p)
    \/ \E p \in Procs : SetDbOk(p)
    \/ \E p \in Procs : SetDbFail(p)
    \/ \E p \in Procs : WarmCache(p)
    \/ \E p \in Procs : WarmGetMem(p)
    \/ \E p \in Procs : WarmDbHit(p)
    \/ \E p \in Procs : WarmDbMiss(p)
    \/ \E p \in Procs : WarmDbFail(p)
    \/ \E p \in Procs : WarmPromote(p)
    \/ \E p \in Procs : WarmCompute(p)
    \/ \E p \in Procs : WarmSetDbOk(p)
    \/ \E p \in Procs : WarmSetDbFail(p)
    \/ \E p \in Procs : GetHot(p)
    \/ \E p \in Procs : GetDbHit(p)
    \/ \E p \in Procs : GetDbMiss(p)
    \/ \E p \in Procs : GetDbFail(p)
    \/ \E p \in Procs : GetPromote(p)
    \/ WarmTick

WarmSpec == WarmInit /\ [][WarmNext]_vars

\* --------------------------------------------------------------- TypedCache

\* The wrappers in use: TypedCache::new(cache, key_prefix, default_ttl), and
\* the ids their callers pass.
TypedCaches ==
    {[key_prefix |-> <<"s">>, default_ttl |-> 30],
     [key_prefix |-> <<"a", "s">>, default_ttl |-> 15]}
Ids == {<<"1">>}

\* format!("{}:{}", self.key_prefix, id): the key a wrapper uses for an id.
TypedKey(w, id) == w.key_prefix \o <<":">> \o id

\* str::starts_with.
StartsWith(k, p) == Len(k) >= Len(p) /\ SubSeq(k, 1, Len(p)) = p

\* A caller enters TypedCache::set(id, value): CacheService::set on the
\* wrapper's key with the wrapper's ttl.
TypedSet(p) ==
    /\ Enter(p)
    /\ \E w \in TypedCaches, id \in Ids, v \in TypedValues :
        SetMem(p, Locals("set", TypedKey(w, id), v.typ, w.default_ttl, v, ToValue(v)))

\* A caller enters TypedCache::invalidate_all: CacheService::invalidate_pattern
\* on the wrapper's key_prefix.
TypedInvalidateAll(p) ==
    /\ Enter(p)
    /\ \E w \in TypedCaches :
        /\ mem' = Restrict(mem, (DOMAIN mem) \ MemoryMatches(mem, w.key_prefix))
        /\ UNCHANGED db
        /\ Goto(p, "pattern_memory", "pattern_db",
                [op |-> "invalidate_pattern", pat |-> w.key_prefix,
                 invalidated |-> Cardinality(MemoryMatches(mem, w.key_prefix)),
                 wrapper |-> w])

\* One caller that sets keys through two wrappers and directly, and
\* invalidates all keys of a wrapper.
TypedInit == Start("sequential", MaxTypedOps, <<>>)

TypedNext ==
    \/ \E p \in Procs : TypedSet(p)
    \/ \E p \in Procs : Set(p)
    \/ \E p \in Procs : SetDbOk(p)
    \/ \E p \in Procs : SetDbFail(p)
    \/ \E p \in Procs : TypedInvalidateAll(p)
    \/ \E p \in Procs : PatternDbOk(p)
    \/ \E p \in Procs : PatternDbFail(p)

TypedSpec == TypedInit /\ [][TypedNext]_vars

\* ------------------------------------------------------------ the map's lock

\* The public methods of CacheService.
PublicOps ==
    {"get", "set", "get_or_compute", "invalidate", "invalidate_pattern",
     "cleanup_expired", "get_stats"}

\* The stages of a call: sections of code that take the map's lock, and
\* awaits.  "promote" is the store_in_memory get calls after a table hit; the
\* other sections are named after the function the lock is taken in.
Sections ==
    {"get_from_memory", "promote", "store_in_memory", "invalidate",
     "invalidate_pattern", "cleanup_expired", "get_stats"}
Awaits == {"get_from_database", "compute", "store_in_database", "delete", "select"}

\* The access a section takes: get_stats calls read(), every other section,
\* get_from_memory included, calls write().
Access(stage) == IF stage = "get_stats" THEN "read" ELSE "write"

\* The stage a call begins with.
FirstStage(op) ==
    CASE op \in {"get", "get_or_compute"} -> "get_from_memory"
      [] op = "set" -> "store_in_memory"
      [] OTHER -> op

\* The stages that may follow a stage; "done" is the call's return.
Follows(op, stage) ==
    CASE stage = "get_from_memory" -> {"done", "get_from_database"}
      [] stage = "get_from_database" ->
            IF op = "get" THEN {"done", "promote"} ELSE {"compute", "promote"}
      [] stage = "promote" -> {"done"}
      [] stage = "compute" -> {"done", "store_in_memory"}
      [] stage = "store_in_memory" -> {"store_in_database"}
      [] stage \in {"invalidate", "invalidate_pattern", "cleanup_expired"} -> {"delete"}
      [] stage = "get_stats" -> {"select"}
      [] OTHER -> {"done"}

\* std::sync::RwLock: any number of read guards, or one write guard.
Holders(l) == l.readers \cup ({l.writer} \ {NoProc})
CanAcquire(l, access) ==
    IF access = "read" THEN l.writer = NoProc ELSE Holders(l) = {}
Acquire(l, access, p) ==
    IF access = "read" THEN [l EXCEPT !.readers = @ \cup {p}] ELSE [l EXCEPT !.writer = p]
\* Mutant of Release: only a read guard is given back.
ReleaseReadOnly(l, p) ==
    [writer |-> l.writer, readers |-> l.readers \ {p}]
Release(l, p) ==
    [writer |-> IF l.writer = p THEN NoProc ELSE l.writer, readers |-> l.readers \ {p}]

\* Two callers of one CacheService; only their positions and the lock matter.
LockInit == Start("locks", 0, <<>>) /\ capacity = 1

\* A caller's position changes to label at stage, or the call returns.
LockGoto(p, label, op, stage) ==
    /\ pc' = [pc EXCEPT ![p] = IF stage = "done" THEN "idle" ELSE label]
    /\ call' = [call EXCEPT ![p] = IF stage = "done" THEN NoCall
                                   ELSE [op |-> op, stage |-> stage]]
    /\ UNCHANGED <<capacity, clock, mem, db, mode, left, ev, roundTrip, setExpiry,
                   sweep, failed, before, returned>>

\* A caller enters a public method and reaches its first section.
LockEnter(p) ==
    /\ pc[p] = "idle"
    /\ \E op \in PublicOps : LockGoto(p, "lock_wait", op, FirstStage(op))
    /\ UNCHANGED lock

\* The caller's read() or write() returns its guard; until then it blocks.
LockAcquire(p) ==
    /\ pc[p] = "lock_wait"
    /\ CanAcquire(lock, Access(call[p].stage))
    /\ lock' = Acquire(lock, Access(call[p].stage), p)
    /\ LockGoto(p, "lock_held", call[p].op, call[p].stage)

\* Mutant of LockRelease: the guard is kept into the stage that follows.
LockReleaseLate(p) ==
    /\ pc[p] = "lock_held"
    /\ UNCHANGED lock
    /\ \E next \in Follows(call[p].op, call[p].stage) :
        LockGoto(p, "lock_await", call[p].op, next)

\* The section ends: its guard goes out of scope, and the call returns or
\* goes on to the await that follows.
LockRelease(p) ==
    /\ pc[p] = "lock_held"
    /\ lock' = Release(lock, p)
    /\ \E next \in Follows(call[p].op, call[p].stage) :
        LockGoto(p, "lock_await", call[p].op, next)

\* The awaited statement or compute resolves: the call returns, or goes on to
\* its next section or await.
LockResume(p) ==
    /\ pc[p] = "lock_await"
    /\ UNCHANGED lock
    /\ \E next \in Follows(call[p].op, call[p].stage) :
        LockGoto(p, IF next \in Sections THEN "lock_wait" ELSE "lock_await",
                 call[p].op, next)

LockNext ==
    \/ \E p \in Procs : LockEnter(p)
    \/ \E p \in Procs : LockAcquire(p)
    \/ \E p \in Procs : LockRelease(p)
    \/ \E p \in Procs : LockResume(p)

LockSpec == LockInit /\ [][LockNext]_vars

\* The steps of a call a caller has entered: each is taken once it stays
\* possible, since a section of code runs to its end and every awaited
\* statement and compute is taken to resolve.  std::sync::RwLock promises no
\* order among the callers that wait for it.
LockStep(p) == LockAcquire(p) \/ LockRelease(p) \/ LockResume(p)

LockFairSpec == LockSpec /\ \A p \in Procs : WF_vars(LockStep(p))

\* --------------------------------------------------------------- properties

Stores == {"set_memory", "promoted"}

\* C1: for every key, at most one compute of get_or_compute is in flight at
\* any time, so concurrent callers of a cold key share one computation.
C1_OneComputeInFlight ==
    \A k \in Keys :
        Cardinality({p \in Procs : pc[p] = "compute" /\ call[p].key = k}) <= 1

\* C2: the number of entries resident in the memory tier never exceeds the
\* capacity given to the constructor, for every capacity from 0 up.
C2_MemoryWithinCapacity == Cardinality(DOMAIN mem) <= capacity

C4_RoundTrip ==
    (/\ roundTrip.stage = "done"
     /\ roundTrip.ttl > 0
     /\ roundTrip.read_at < roundTrip.at + roundTrip.ttl)
    => roundTrip.result = [tag |-> "Ok", v |-> roundTrip.val]

\* C4 happens: the round trip returned v, some time after the set and with
\* the map holding another key as well.
C4_Witness ==
    /\ roundTrip.stage = "done"
    /\ roundTrip.read_at > roundTrip.at
    /\ roundTrip.read_at < roundTrip.at + roundTrip.ttl
    /\ roundTrip.result = [tag |-> "Ok", v |-> roundTrip.val]
    /\ Cardinality(DOMAIN mem) = 2

\* C4, as claimed: the same with the clock not advanced past t, the instant
\* set time + t included.
C4_RoundTripUpToTtl ==
    (/\ roundTrip.stage = "done"
     /\ roundTrip.ttl > 0
     /\ roundTrip.read_at <= roundTrip.at + roundTrip.ttl)
    => roundTrip.result = [tag |-> "Ok", v |-> roundTrip.val]

\* C5: after set(k, v, t) with no later set or compute for k, a get(k) issued
\* once the clock is more than t past the set does not return a value; it is
\* stated of the get that is answered from the memory tier in its first step.
C5_ExpiredIsMiss ==
    (ev.act = "memory_hit" /\ ev.call.op = "get")
    => ~(/\ setExpiry[ev.call.key] # NoExpiry
         /\ clock > setExpiry[ev.call.key])

\* C6: invalidate_pattern(p) removes from the memory tier and from the
\* persistent tier exactly the keys that contain p as a substring.
C6_RemovesExactlyContaining ==
    [][/\ ev'.act = "pattern_memory" =>
            DOMAIN mem' = {k \in DOMAIN mem : ~Contains(k, ev'.call.pat)}
       /\ ev'.act = "pattern_deleted" =>
            DOMAIN db' = {k \in DOMAIN db : ~Contains(k, ev'.call.pat)}]_vars

\* C7: the count invalidate_pattern carries over from the map is the number
\* of entries it removed there, and the value a successful call returns is
\* that count plus the number of rows it deleted.
C7_CountsBothTiers ==
    /\ ev.act = "pattern_memory" => ev.call.invalidated = Cardinality(ev.gone)
    /\ ev.act = "pattern_deleted" =>
            ev.result = [tag |-> "Ok",
                         v |-> ev.call.invalidated + Cardinality(ev.deleted)]

\* C7 happens: one key resident in both tiers matched and the call returned 2.
C7_Witness ==
    /\ ev.act = "pattern_deleted"
    /\ ev.call.invalidated = 1
    /\ Cardinality(ev.deleted) = 1
    /\ ev.result = [tag |-> "Ok", v |-> 2]

\* C8: when the persistent write of set fails, set returns DatabaseError and
\* changes neither tier; with no step of another call since set wrote the
\* map, the map holds the value of this set for the key.
C8_FailedSetKeepsMemory ==
    [][(ev'.act = "set_failed" /\ ev'.call.op = "set") =>
        /\ ev'.result = Err("DatabaseError")
        /\ mem' = mem
        /\ db' = db
        /\ (roundTrip.stage = "set" /\ roundTrip.p = ev'.p) =>
                /\ ev'.call.key \in DOMAIN mem'
                /\ mem'[ev'.call.key].value = ev'.call.json]_vars

\* C8 happens: a set failed, the map holds its value and the table does not.
C8_Witness ==
    /\ ev.act = "set_failed"
    /\ ev.call.op = "set"
    /\ ev.call.key \in DOMAIN mem
    /\ mem[ev.call.key].value = ev.call.json
    /\ ev.call.key \in DOMAIN db
    /\ db[ev.call.key].value # ev.call.json

\* C9: a failed read of the persistent tier makes get return NotFound, no get
\* ever returns DatabaseError, and inside get_or_compute the failed read leads
\* to compute as a miss does.
C9_ReadFailureIsMiss ==
    /\ (ev.act = "db_read_failed" /\ ev.call.op = "get") =>
            (ev.result = Err("NotFound") /\ pc[ev.p] = "idle")
    /\ (ev.act \in {"db_read_failed", "db_miss"} /\ ev.call.op = "get_or_compute") =>
            pc[ev.p] = "compute"
    /\ (ev.act # "tick" /\ ev.act # "init" /\ ev.call.op = "get") =>
            ev.result # Err("DatabaseError")

\* C9 happens: the read of a live record failed and get returned.
C9_Witness ==
    /\ ev.act = "db_read_failed"
    /\ ev.call.op = "get"
    /\ DbLive(db, ev.call.key, clock)

\* C10: the value get fetches from the persistent tier is that of a live
\* record; the promotion leaves it in the map under the key, expiring thirty
\* minutes from now, and get returns it.
C10_PromotionDefaultTtl ==
    /\ ev.act = "db_hit" =>
            /\ ev.call.key \in DOMAIN db
            /\ db[ev.call.key].expires_at > clock
            /\ ev.call.got = db[ev.call.key].value
    /\ ev.act = "promoted" =>
            /\ ev.call.key \in DOMAIN mem
            /\ mem[ev.call.key].value = ev.call.got
            /\ mem[ev.call.key].expires_at = clock + 30
            /\ ev.call.typ = ev.call.got.shape =>
                    /\ ev.result.tag = "Ok"
                    /\ ev.result.v.data = ev.call.got.data

\* C10 happens: the promoted entry's expiry differs from the record's.
C10_Witness ==
    /\ ev.act = "promoted"
    /\ ev.result.tag = "Ok"
    /\ ev.call.key \in DOMAIN db
    /\ db[ev.call.key].value = ev.call.got
    /\ db[ev.call.key].expires_at # mem[ev.call.key].expires_at

\* C11: a set that succeeded, with no step of another call since it wrote the
\* map, leaves the key in each tier with the value of this set and an expiry
\* of the write's instant plus the ttl; the map entry is created at the
\* write's instant and has no hits, so nothing of an earlier entry remains.
C11_SetReplacesBothTiers ==
    (ev.act = "set_stored" /\ ev.call.op = "set" /\ roundTrip.stage = "stored") =>
        /\ ev.result = OkUnit
        /\ ev.call.key \in DOMAIN mem
        /\ mem[ev.call.key] = [value |-> ToValue(ev.call.val),
                               expires_at |-> roundTrip.at + ev.call.ttl,
                               created_at |-> roundTrip.at,
                               hit_count |-> 0]
        /\ ev.call.key \in DOMAIN db
        /\ db[ev.call.key] = [value |-> ToValue(ev.call.val),
                              expires_at |-> clock + ev.call.ttl]

\* C11 happens: the set replaced an entry that had another value and hits,
\* later than that entry was created.
C11_Witness ==
    /\ ev.act = "set_stored"
    /\ ev.call.op = "set"
    /\ roundTrip.stage = "stored"
    /\ roundTrip.over
    /\ roundTrip.at > 0

\* C12: invalidate(k) takes k, and nothing else, out of the map and then out
\* of the table; when it returns Ok with no other call running, k is in
\* neither tier and every other key is as it was.  For a key in neither tier
\* it returns Ok and changes nothing.
C12_InvalidateRemovesOnlyKey ==
    [][/\ ev'.act = "invalidate_memory" =>
            /\ db' = db
            /\ DOMAIN mem' = (DOMAIN mem) \ {ev'.call.key}
            /\ \A x \in DOMAIN mem' : mem'[x] = mem[x]
            /\ ev'.call.key \notin DOMAIN mem => mem' = mem
       /\ ev'.act = "invalidated" =>
            /\ ev'.result = OkUnit
            /\ mem' = mem
            /\ DOMAIN db' = (DOMAIN db) \ {ev'.call.key}
            /\ \A x \in DOMAIN db' : db'[x] = db[x]
            /\ ev'.call.key \notin DOMAIN db => db' = db
            /\ ev'.call.key \notin DOMAIN mem']_vars

\* C12 happens: invalidate deleted its key's record and returned, and another
\* key is still in both tiers.
C12_Witness ==
    /\ ev.act = "invalidated"
    /\ ev.deleted = {ev.call.key}
    /\ \E x \in Keys \ {ev.call.key} : x \in DOMAIN mem /\ x \in DOMAIN db

\* C13: the count cleanup_expired carries over from the map is the number of
\* entries it removed there, and a successful call returns that count plus
\* the number of rows it deleted.  When the table held a single row, already
\* expired and with no entry in the map, the call returns 1, and the get of
\* that key that follows returns NotFound.
C13_CleanupCountsRemoved ==
    /\ ev.act = "cleanup_memory" => ev.call.cleaned = Cardinality(ev.gone)
    /\ ev.act = "cleanup_deleted" =>
            ev.result = [tag |-> "Ok",
                         v |-> ev.call.cleaned + Cardinality(ev.deleted)]
    /\ (/\ sweep.stage # "none"
        /\ Cardinality(sweep.rows) = 1
        /\ sweep.deleted = sweep.rows
        /\ sweep.cleaned = 0
        /\ sweep.resident = {}) =>
            /\ sweep.returned = [tag |-> "Ok", v |-> 1]
            /\ sweep.stage = "done" => sweep.result = Err("NotFound")

\* C13 happens: the single row of the table was expired and had no entry in
\* the map; cleanup_expired returned 1 and the get that followed has returned.
C13_Witness ==
    /\ sweep.stage = "done"
    /\ Cardinality(sweep.rows) = 1
    /\ sweep.deleted = sweep.rows
    /\ sweep.cleaned = 0
    /\ sweep.resident = {}
    /\ sweep.returned = [tag |-> "Ok", v |-> 1]

\* C14: after set(k, v, t) with no later set or compute for k, a
\* cleanup_expired that began once the clock was more than t past the set and
\* has completed leaves k in neither tier, whatever gets and calls on other
\* keys came in between.
C14_CleanupRemovesExpiredSet ==
    ev.act = "cleanup_deleted" =>
        \A k \in Keys :
            (setExpiry[k] # NoExpiry /\ ev.call.swept_at > setExpiry[k]) =>
                (k \notin DOMAIN mem /\ k \notin DOMAIN db)

\* C15: the sweep of the map by cleanup_expired removes every entry with
\* expires_at <= now, the entries a lookup at that instant treats as absent,
\* so that every entry left has expires_at > now.
C15_SweepRemovesDueEntries ==
    ev.act = "cleanup_memory" =>
        \A k \in DOMAIN mem : MemoryHit(mem, k, ev.call.swept_at)

\* C16, as amended: with capacity 2 and both tiers empty, after set of "a",
\* of "b" and of "c" in that order, at distinct instants and each returning
\* Ok, "a" is the entry evicted from the map, which holds "b" and "c";
\* stats().total_keys is 5, the 2 entries of the map plus the 3 rows of the
\* table; get("a") misses the map and, when it reads the live row of "a",
\* returns the value set for "a", the row's value.
C16_ScenarioBBothTiers ==
    (/\ Started = Len(ScenarioKeys) + 1
     /\ \A i \in DOMAIN ScenarioKeys : ScenarioKeys[i] \in DOMAIN db) =>
        /\ ev.act = "stats_done" =>
                /\ DOMAIN mem = {ScenarioKeys[2], ScenarioKeys[3]}
                /\ ev.result.v.total_keys = 5
        /\ (ev.act # "tick" /\ ev.call.op = "get" /\ ev.call.key = ScenarioKeys[1]) =>
                /\ ev.act # "memory_hit"
                /\ ev.act = "db_miss" => ~DbLive(db, ScenarioKeys[1], clock)
                /\ ev.act = "promoted" =>
                        ev.result = FromValue(ev.call.typ, db[ScenarioKeys[1]].value)
                /\ (ev.act = "promoted" /\ ev.call.typ = "A") => ev.result.tag = "Ok"

\* C16 happens: after the three sets get("a") has returned the value of "a"
\* from the table, and its promotion has evicted "b".
C16_Witness ==
    /\ Started = Len(ScenarioKeys) + 1
    /\ \A i \in DOMAIN ScenarioKeys : ScenarioKeys[i] \in DOMAIN db
    /\ ev.act = "promoted"
    /\ ev.call.key = ScenarioKeys[1]
    /\ ev.result.tag = "Ok"
    /\ DOMAIN mem = {ScenarioKeys[1], ScenarioKeys[3]}

\* C16, as claimed: after the three sets "a" is not in the map,
\* stats().total_keys is 2 and get("a") returns NotFound.
C16_ScenarioB ==
    (/\ Started = Len(ScenarioKeys) + 1
     /\ \A i \in DOMAIN ScenarioKeys : ScenarioKeys[i] \in DOMAIN db) =>
        /\ ev.act = "stats_done" =>
                /\ ScenarioKeys[1] \notin DOMAIN mem
                /\ ev.result.v.total_keys = 2
        /\ (/\ ev.act # "tick" /\ ev.call.op = "get"
            /\ ev.call.key = ScenarioKeys[1] /\ pc[ev.p] = "idle") =>
                ev.result = Err("NotFound")

\* C17: the key count get_stats reads from the map is the number of entries
\* resident, expired ones included, and total_keys is that count plus the
\* number of rows of the table, expired ones included; with one caller it is
\* the size of the map plus the size of the table, a key in both counted twice.
C17_TotalKeysSumsTiers ==
    /\ ev.act = "stats_memory" => ev.call.memory_keys = Cardinality(DOMAIN mem)
    /\ ev.act = "stats_done" =>
            /\ ev.result.v.total_keys =
                    ev.call.memory_keys + Cardinality(DOMAIN db)
            /\ ev.result.v.total_keys =
                    Cardinality(DOMAIN mem) + Cardinality(DOMAIN db)

\* C17 happens: the only key is in both tiers and expired in both, and
\* total_keys is 2.
C17_Witness ==
    /\ ev.act = "stats_done"
    /\ DOMAIN mem = DOMAIN db
    /\ Cardinality(DOMAIN mem) = 1
    /\ \A k \in DOMAIN mem : mem[k].expires_at < clock /\ db[k].expires_at < clock
    /\ ev.result.v.total_keys = 2

\* C18, as amended: get_or_compute(k, t, compute) does what get(k) does when
\* k is live in the memory tier or its live record is read from the
\* persistent tier: it returns the stored value decoded, compute is not
\* invoked and no stored value changes.  When k is live in neither tier, or
\* the read of the persistent tier fails, compute is invoked, once; when it
\* succeeds its result is written to the memory tier with ttl t, and when the
\* persistent write succeeds too, the record holds it with ttl t and that
\* same result is returned.
C18_GetOrComputeAsGet ==
    [][(ev'.act # "tick" /\ ev'.call.op = "get_or_compute") =>
        LET p == ev'.p
            c == ev'.call
            k == ev'.call.key
        IN  /\ ev'.act = "memory_hit" =>
                    /\ MemoryHit(mem, k, clock)
                    /\ ev'.result = FromValue(c.typ, mem[k].value)
                    /\ pc'[p] = "idle"
                    /\ db' = db
                    /\ DOMAIN mem' = DOMAIN mem
                    /\ \A x \in DOMAIN mem : mem'[x].value = mem[x].value
            /\ ev'.act = "memory_miss" => ~MemoryHit(mem, k, clock) /\ db' = db
            /\ ev'.act = "db_hit" =>
                    /\ DbLive(db, k, clock)
                    /\ c.got = db[k].value
                    /\ mem' = mem /\ db' = db
            /\ ev'.act = "promoted" =>
                    /\ ev'.result = FromValue(c.typ, c.got)
                    /\ pc'[p] = "idle"
                    /\ db' = db
                    /\ mem'[k].value = c.got
            /\ pc'[p] = "compute" =>
                    /\ ev'.act \in {"db_miss", "db_read_failed"}
                    /\ ev'.act = "db_miss" => ~DbLive(db, k, clock)
                    /\ pc[p] = "get_db"
                    /\ mem' = mem /\ db' = db
            /\ ev'.act = "set_memory" =>
                    /\ pc[p] = "compute"
                    /\ pc'[p] = "set_db"
                    /\ c = [call[p] EXCEPT !.val = c.val, !.json = ToValue(c.val)]
                    /\ c.val.typ = c.typ
                    /\ mem'[k] = CacheEntry(ToValue(c.val), call[p].ttl, clock)
                    /\ db' = db
            /\ ev'.act = "set_stored" =>
                    /\ pc[p] = "set_db"
                    /\ ev'.result = [tag |-> "Ok", v |-> c.val]
                    /\ db'[k] = [value |-> ToValue(c.val), expires_at |-> clock + c.ttl]
                    /\ mem' = mem
                    /\ mode = "sequential" =>
                            /\ mem[k].value = ToValue(c.val)
                            /\ mem[k].expires_at = mem[k].created_at + c.ttl]_vars

\* C18 happens: get_or_compute missed, computed, and has returned the result,
\* which both tiers hold, the row written later than the entry of the map,
\* with another key resident.
C18_Witness ==
    /\ ev.act = "set_stored"
    /\ ev.call.op = "get_or_compute"
    /\ ev.result = [tag |-> "Ok", v |-> ev.call.val]
    /\ mem[ev.call.key].value = ToValue(ev.call.val)
    /\ db[ev.call.key].value = ToValue(ev.call.val)
    /\ db[ev.call.key].expires_at > mem[ev.call.key].expires_at
    /\ Cardinality(DOMAIN mem) = 2

\* C18, as claimed: compute is invoked only for a key that is live in
\* neither tier.
C18_ComputeOnlyWhenNotLive ==
    \A p \in Procs :
        (pc[p] = "compute" /\ ev.act # "tick") =>
            (~MemoryHit(mem, call[p].key, clock) /\ ~DbLive(db, call[p].key, clock))

\* C19: when compute fails, get_or_compute returns the error with both tiers
\* as they were and none of its locals kept; the next get_or_compute of the
\* key that misses, or whose read of the table fails, invokes compute again.
C19_FailedComputeLeavesNoTrace ==
    [][/\ ev'.act = "compute_failed" =>
            /\ ev'.result = Err("ComputeError")
            /\ pc'[ev'.p] = "idle"
            /\ call'[ev'.p] = NoCall
            /\ mem' = mem
            /\ db' = db
       /\ (/\ failed # NoKey
           /\ ev'.act \in {"db_miss", "db_read_failed"}
           /\ ev'.call.op = "get_or_compute"
           /\ ev'.call.key = failed) =>
                pc'[ev'.p] = "compute"]_vars

\* C19 happens: compute failed for a key, and the next get_or_compute of that
\* key is at its compute again, with both tiers still empty.
C19_Witness ==
    /\ failed # NoKey
    /\ \E p \in Procs : pc[p] = "compute" /\ call[p].key = failed
    /\ mem = <<>>
    /\ db = <<>>

\* C20: a get or get_or_compute that finds in the map a live value it cannot
\* decode returns SerializationError at once: the table is not consulted,
\* compute is not invoked and the value stays in the map.  One that fetches
\* such a value from the table returns SerializationError after the
\* promotion: compute is not invoked and the row stays as it is.
C20_DecodeFailureSurfaces ==
    [][(ev'.act # "tick" /\ ev'.call.op \in {"get", "get_or_compute"}) =>
        LET p == ev'.p
            c == ev'.call
            k == ev'.call.key
        IN  /\ (/\ pc[p] = "idle"
                /\ MemoryHit(mem, k, clock)
                /\ mem[k].value.shape # c.typ) =>
                    /\ ev'.act = "memory_hit"
                    /\ ev'.result = Err("SerializationError")
                    /\ pc'[p] = "idle"
                    /\ db' = db
                    /\ DOMAIN mem' = DOMAIN mem
                    /\ \A x \in DOMAIN mem : mem'[x].value = mem[x].value
            /\ (/\ pc[p] = "get_promote"
                /\ call[p].got.shape # c.typ) =>
                    /\ ev'.act = "promoted"
                    /\ ev'.result = Err("SerializationError")
                    /\ pc'[p] = "idle"
                    /\ db' = db
                    /\ mem'[k].value = call[p].got]_vars

\* C20 happens: get_or_compute found in the map a value of another type than
\* the one asked for and returned SerializationError; the table holds the key
\* too.
C20_Witness ==
    /\ ev.act = "memory_hit"
    /\ ev.call.op = "get_or_compute"
    /\ ev.result = Err("SerializationError")
    /\ mem[ev.call.key].value.shape # ev.call.typ
    /\ DbLive(db, ev.call.key, clock)

\* C24: a store_in_memory for a key that is already resident, with the map at
\* capacity, evicts nothing: the resident keys are the same after it and every
\* other entry is unchanged.
C24_ResidentInsertEvictsNothing ==
    [][(/\ ev'.act \in Stores
        /\ ev'.call.key \in DOMAIN mem
        /\ Cardinality(DOMAIN mem) >= capacity) =>
            /\ DOMAIN mem' = DOMAIN mem
            /\ \A x \in (DOMAIN mem) \ {ev'.call.key} : mem'[x] = mem[x]]_vars

\* C25: a memory lookup of k that finds k resident and not yet expired returns
\* the stored value and adds exactly 1 to the entry's hit counter; one that
\* finds k resident with now >= expires_at removes the entry and is a miss; a
\* lookup of an absent key is a miss; no other entry of the map changes.
C25_LookupCountsOrRemoves ==
    [][ev'.act \in {"memory_hit", "memory_miss"} =>
        LET k == ev'.call.key
        IN  /\ (k \in DOMAIN mem /\ clock < mem[k].expires_at) =>
                    /\ ev'.act = "memory_hit"
                    /\ ev'.result = FromValue(ev'.call.typ, mem[k].value)
                    /\ mem' = [mem EXCEPT ![k].hit_count = mem[k].hit_count + 1]
            /\ (k \in DOMAIN mem /\ clock >= mem[k].expires_at) =>
                    /\ ev'.act = "memory_miss"
                    /\ mem' = Remove(mem, k)
            /\ k \notin DOMAIN mem =>
                    /\ ev'.act = "memory_miss"
                    /\ mem' = mem]_vars

\* C25 happens: a get found its key live in the map, returned the value and
\* the entry's hit counter went from 0 to 1.
C25_Witness ==
    /\ ev.act = "memory_hit"
    /\ ev.result.tag = "Ok"
    /\ ev.call.key \in DOMAIN mem
    /\ mem[ev.call.key].hit_count = 1
    /\ ev.result = FromValue(ev.call.typ, mem[ev.call.key].value)

\* C26: get never deletes from the table nor writes to it; a get(k) that finds
\* in the table only an expired row for k returns NotFound and leaves the row
\* as it was, still counted by get_stats.
C26_GetLeavesExpiredRow ==
    [][ev'.act \in {"memory_hit", "memory_miss", "db_hit", "db_miss",
                    "db_read_failed", "promoted"} =>
        LET p == ev'.p
            k == ev'.call.key
        IN  /\ db' = db
            /\ (/\ pc[p] = "get_db"
                /\ call[p].op = "get"
                /\ k \in DOMAIN db
                /\ db[k].expires_at <= clock) =>
                    /\ ev'.result = Err("NotFound")
                    /\ pc'[p] = "idle"
                    /\ db'[k] = db[k]
                    /\ CacheStats(mem', db', Cardinality(DOMAIN mem'), 0, clock').total_keys
                         = Cardinality(DOMAIN mem') + Cardinality(DOMAIN db)]_vars

\* C26 happens: a get found its key absent from the map and expired in the
\* table, returned NotFound, and the expired row is still in the table.
C26_Witness ==
    /\ ev.act = "db_miss"
    /\ ev.call.op = "get"
    /\ ev.result = Err("NotFound")
    /\ ev.call.key \in DOMAIN db
    /\ db[ev.call.key].expires_at <= clock
    /\ ev.call.key \notin DOMAIN mem

\* C30: a live entry leaves a tier only for a listed cause.  A live row leaves
\* the table only by invalidate of its key or by an invalidate_pattern whose
\* pattern the key contains; a live entry leaves the map only by one of those
\* two or by store_in_memory's eviction at capacity.  So cleanup_expired, get
\* and a set never remove a live row, and cleanup_expired never removes a live
\* memory entry.
C30_LiveDestroyedOnlyByListedCauses ==
    [][/\ \A k \in DOMAIN db :
            (DbLive(db, k, clock) /\ k \notin DOMAIN db') =>
                \/ ev'.act = "invalidated" /\ ev'.call.key = k
                \/ ev'.act = "pattern_deleted" /\ Contains(k, ev'.call.pat)
       /\ \A k \in DOMAIN mem :
            (MemoryHit(mem, k, clock) /\ k \notin DOMAIN mem') =>
                \/ ev'.act = "invalidate_memory" /\ ev'.call.key = k
                \/ ev'.act = "pattern_memory" /\ Contains(k, ev'.call.pat)
                \/ ev'.act \in Stores /\ Cardinality(DOMAIN mem) >= capacity]_vars

\* C23: a get, or a set with a positive ttl, that is dropped at a suspension
\* point before it resolves has applied no write: with no other caller's step
\* in between, both tiers hold for the call's key exactly what they held when
\* the call began.
C23_CancelledCallWritesNothing ==
    (/\ ev.act = "cancelled"
     /\ ev.call.op \in {"get", "set"}
     /\ ev.call.op = "set" => ev.call.ttl > 0
     /\ before.p = ev.p) =>
        /\ Held(mem, before.key) = before.mem
        /\ Held(db, before.key) = before.db

\* C27: every entry resident in the map has expires_at > created_at, whatever
\* ttl the set that stored it was given.
C27_ExpiryAfterCreation ==
    \A k \in DOMAIN mem : mem[k].expires_at > mem[k].created_at

\* C28: when a set(k, v, t) with t > 0 and an invalidate(k) are the two calls
\* made and both returned Ok, k ends as after one of their serial orders: holding v in
\* both tiers, or absent from both.
C28_SetInvalidateSerial ==
    \A k \in Keys :
        (/\ \A p \in Procs : pc[p] = "idle"
         /\ Len(returned) = 2
         /\ \A i \in 1..2 : returned[i].key = k /\ returned[i].ok
         /\ {returned[1].op, returned[2].op} = {"set", "invalidate"}
         /\ \A i \in 1..2 : returned[i].op = "set" => returned[i].ttl > 0) =>
            LET v == IF returned[1].op = "set" THEN returned[1].value
                     ELSE returned[2].value
            IN  \/ k \notin DOMAIN mem /\ k \notin DOMAIN db
                \/ /\ k \in DOMAIN mem /\ mem[k].value = v
                   /\ k \in DOMAIN db /\ db[k].value = v

\* C29: when two sets of the same key with different values and positive ttls
\* are the two calls made and both returned Ok, the map and the table hold the same value for
\* the key.
C29_OverlappingSetsAgree ==
    \A k \in Keys :
        (/\ \A p \in Procs : pc[p] = "idle"
         /\ Len(returned) = 2
         /\ \A i \in 1..2 : returned[i].key = k /\ returned[i].ok
                            /\ returned[i].op = "set" /\ returned[i].ttl > 0
         /\ returned[1].value # returned[2].value) =>
            /\ k \in DOMAIN mem
            /\ k \in DOMAIN db
            /\ mem[k].value = db[k].value

\* C21: memory lookups take shared access and the mutating sections exclusive
\* access: a caller waiting to enter get_from_memory while only lookups are
\* inside the lock can enter with them, and a caller inside an insert, a
\* remove, a remove of the matching keys or a sweep is alone inside the lock.
C21_LookupsShareTheLock ==
    /\ \A p \in Procs :
        (/\ pc[p] = "lock_wait"
         /\ call[p].stage = "get_from_memory"
         /\ \A q \in Holders(lock) : call[q].stage = "get_from_memory") =>
            CanAcquire(lock, Access(call[p].stage))
    /\ \A q \in Holders(lock) :
        call[q].stage \in {"promote", "store_in_memory", "invalidate",
                           "invalidate_pattern", "cleanup_expired"} =>
            Holders(lock) = {q}

\* C22: no caller holds the map's lock while it is suspended at an await of a
\* database statement or of a compute: in every public method the guard is
\* released before the await begins.
C22_NoLockAcrossAwait ==
    \A p \in Procs :
        (pc[p] = "lock_await" /\ call[p].stage \in Awaits) => p \notin Holders(lock)

\* C22 happens: one caller is suspended at the await of its database write
\* while the other is inside the lock.
C22_Witness ==
    \E p, q \in Procs :
        /\ pc[p] = "lock_await"
        /\ call[p].stage = "store_in_database"
        /\ pc[q] = "lock_held"
        /\ Holders(lock) = {q}

\* C32: the hit_ratio get_stats returns is the sum of the hit counters of the
\* entries resident in the map over total_keys, and 0 when total_keys is 0, so
\* that nothing is divided by zero; it may exceed 1.
C32_HitRatioIsHitsOverKeys ==
    [][ev'.act = "stats_done" =>
        LET s == ev'.result.v
            hits == SumHits(mem, DOMAIN mem)
            keys == Cardinality(DOMAIN mem) + Cardinality(DOMAIN db)
        IN  /\ s.total_keys = keys
            /\ s.hit_ratio.den > 0
            /\ keys > 0 => s.hit_ratio = [num |-> hits, den |-> keys]
            /\ keys = 0 => s.hit_ratio.num = 0]_vars

\* C32 happens: get_stats returned a hit_ratio above 1: two hits of the one key
\* the cache holds.
C32_Witness ==
    /\ ev.act = "stats_done"
    /\ ev.result.v.hit_ratio.num > ev.result.v.hit_ratio.den
    /\ ev.result.v.hit_ratio.num = SumHits(mem, DOMAIN mem)

\* C34: when compute succeeds inside get_or_compute but the table write of the
\* set that follows fails, the caller gets DatabaseError and not the computed
\* value, the map holds the computed value all the same, and the next
\* get_or_compute of the key, before the entry expires, returns that value
\* from the map without invoking compute.
C34_ComputedValueSurvivesFailedWrite ==
    [][/\ (ev'.act = "set_failed" /\ ev'.call.op = "get_or_compute") =>
            LET p == ev'.p
                k == call[p].key
            IN  /\ ev'.result = Err("DatabaseError")
                /\ k \in DOMAIN mem'
                /\ mem'[k].value = ToValue(call[p].val)
                /\ db' = db
       /\ (/\ ev.act = "set_failed"
           /\ ev.call.op = "get_or_compute"
           /\ ev'.act \in {"memory_hit", "memory_miss"}
           /\ ev'.call.op = "get_or_compute"
           /\ ev'.call.key = ev.call.key
           /\ ev'.call.typ = ev.call.typ
           /\ MemoryHit(mem, ev.call.key, clock)) =>
                /\ ev'.act = "memory_hit"
                /\ ev'.result = [tag |-> "Ok", v |-> ev.call.val]
                /\ pc'[ev'.p] = "idle"
                /\ db' = db]_vars

\* C34 happens: compute succeeded inside get_or_compute, the table write
\* failed and DatabaseError was returned; the map holds the computed value and
\* is live, the table has no row for the key.
C34_Witness ==
    /\ ev.act = "set_failed"
    /\ ev.call.op = "get_or_compute"
    /\ ev.result = Err("DatabaseError")
    /\ ev.call.val \in ComputedValues
    /\ MemoryHit(mem, ev.call.key, clock)
    /\ mem[ev.call.key].value = ToValue(ev.call.val)
    /\ ev.call.key \notin DOMAIN db
    /\ left > 0

\* C35: a get(k) changes the map only at k, except that its promotion, when it
\* finds the map at capacity, also evicts one entry, an earliest-created one;
\* a get served from the map or ending in NotFound changes no entry of another
\* key.
C35_GetChangesOnlyItsKey ==
    [][(/\ ev'.act \in {"memory_hit", "memory_miss", "db_hit", "db_miss",
                        "db_read_failed", "promoted"}
        /\ ev'.call.op = "get") =>
        LET k == ev'.call.key
            others == {x \in ((DOMAIN mem) \cup (DOMAIN mem')) \ {k} :
                          Held(mem', x) # Held(mem, x)}
        IN  /\ ev'.act # "promoted" => others = {}
            /\ ev'.act = "promoted" =>
                    /\ Cardinality(others) <= 1
                    /\ k \in DOMAIN mem'
                    /\ \A x \in others :
                        /\ x \in OldestKeys(mem)
                        /\ x \notin DOMAIN mem'
                        /\ Cardinality(DOMAIN mem) >= capacity]_vars

\* C35 happens: the promotion of a get found the map at capacity and evicted
\* the entry of another key.
C35_Witness ==
    /\ ev.act = "promoted"
    /\ ev.call.op = "get"
    /\ ev.gone # {}
    /\ ev.call.key \notin ev.gone
    /\ ev.call.key \in DOMAIN mem

\* C36: the hit counter of a resident entry counts the memory hits of its key
\* since the entry was inserted: a set and a promotion insert the entry with
\* counter 0, a set over a resident entry included; a memory hit of the key
\* adds 1; no other step changes the counter of an entry that stays resident.
C36_HitCounterCountsHits ==
    [][\A k \in DOMAIN mem' :
        IF ev'.act \in Stores /\ ev'.call.key = k
        THEN mem'[k].hit_count = 0
        ELSE /\ k \in DOMAIN mem
             /\ mem'[k].hit_count =
                    mem[k].hit_count
                    + (IF ev'.act = "memory_hit" /\ ev'.call.key = k THEN 1 ELSE 0)]_vars

\* C36 happens: an entry was hit twice since its insertion and its counter is
\* 2, while another entry, never hit, has counter 0.
C36_Witness ==
    /\ ev.act = "memory_hit"
    /\ mem[ev.call.key].hit_count = 2
    /\ \E x \in DOMAIN mem : mem[x].hit_count = 0

\* C33: once an invalidate(k) has returned Ok, and with no set or compute of k
\* afterwards, a get(k) that starts after that return is not served: it does
\* not hit the map.  (A memory hit enters and returns in one step, so every
\* call recorded before it had returned when the get started.)
C33_NoHitAfterInvalidate ==
    (ev.act = "memory_hit" /\ ev.call.op = "get") =>
        ~ \E i \in 1..(Len(returned) - 1) :
            /\ returned[i].op = "invalidate"
            /\ returned[i].ok
            /\ returned[i].key = ev.call.key

C39_WarmCacheAlwaysOk ==
    ev.act = "warm_done" =>
        /\ ev.result = OkUnit
        /\ Len(ev.call.results) = Len(HotKeys)
        /\ WarmCacheResponse(ev.result) = [status |-> 200, success |-> TRUE]

\* Reached: warm_cache returns after both of its writes to the table failed;
\* neither hot key has a row.
C39_Witness ==
    /\ ev.act = "warm_done"
    /\ ev.result = OkUnit
    /\ ev.call.results = <<Err("DatabaseError"), Err("DatabaseError")>>
    /\ \A i \in DOMAIN HotKeys : HotKeys[i] \notin DOMAIN db
    /\ WarmCacheResponse(ev.result).success

\* C37: TypedCache::invalidate_all of a wrapper with prefix P removes, from
\* either tier, only keys of the form "P:id".
C37_InvalidateAllRemovesOwnKeys ==
    (/\ ev.act \in {"pattern_memory", "pattern_deleted"}
     /\ "wrapper" \in DOMAIN ev.call) =>
        \A k \in ev.gone \cup ev.deleted :
            StartsWith(k, ev.call.wrapper.key_prefix \o <<":">>)

\* A caller that waits for the map's lock can take it, or waits for a caller
\* that is inside a section of code and holds it.
LockIsLive ==
    \A p \in Procs :
        pc[p] = "lock_wait" =>
            \/ CanAcquire(lock, Access(call[p].stage))
            \/ \E q \in Procs \ {p} : pc[q] = "lock_held" /\ q \in Holders(lock)

\* C38: no deadlock on the map's lock is reachable and, with weak fairness on
\* each caller, every call eventually returns.
C38_NoDeadlockAndEveryCallReturns ==
    /\ []LockIsLive
    /\ \A p \in Procs : (pc[p] # "idle") ~> (pc[p] = "idle")

\* C38, amended: no deadlock on the map's lock is reachable, every guard is
\* given back, and a call eventually returns provided it does not wait for the
\* lock for ever.
C38_NoDeadlockAndCallsReturnIfGranted ==
    /\ []LockIsLive
    /\ \A p \in Procs : (pc[p] = "lock_held") ~> (p \notin Holders(lock))
    /\ \A p \in Procs :
        []<>(pc[p] # "lock_wait") => ((pc[p] # "idle") ~> (pc[p] = "idle"))

\* C38 happens: a caller waits for the lock while the other, in a different
\* method, holds the write guard.
C38_Witness ==
    \E p, q \in Procs :
        /\ pc[p] = "lock_wait"
        /\ pc[q] = "lock_held"
        /\ lock.writer = q
        /\ call[p].op # call[q].op

====
